---- MODULE Spec2Model ----
(***************************************************************************)
(* The reminder scheduler of the Telegram bot (src/main.py): the reminders *)
(* table of the SQLite database, the job queue of the running process, the *)
(* remind_add / remind_cancel command handlers, the reminder_job callback  *)
(* and the recovery pass schedule_pending_reminders run by main().         *)
(*                                                                         *)
(* Time is the reading of now_utc(), counted in minutes after              *)
(* 2026-01-01 00:00 UTC.  The database file outlives the process; the job  *)
(* queue and the dispatches in flight live in the process and are lost     *)
(* when it stops.                                                          *)
(***************************************************************************)
EXTENDS Integers, Sequences, FiniteSets, Bags, TLC

\* ------------------------------------------------------------- bounds
MaxId == 2        \* reminders ever inserted (AUTOINCREMENT ids 1..MaxId)
MaxTime == 2      \* last clock reading explored

Users == {1, 2}
Ids == 1..MaxId
Times == 0..MaxTime

VARIABLES
    now,        \* reading of now_utc()
    process,    \* "down": no process; "up": main() reached run_polling;
                \* "exited": main() ended with an exception
    reminders,  \* the reminders table: id -> [user_id, remind_at, text]
    seq,        \* sqlite_sequence of the table: the last id handed out
    jobs,       \* app.job_queue: a bag of jobs [name, when, data]
    inflight,   \* reminder_job coroutines suspended in send_message
    outbox,     \* history: id -> the send_message calls made for it
    cancelled,  \* history: ids whose row a remind_cancel deleted
    delivered,  \* history: ids whose send_message call returned
    recovered   \* history: ids whose armed job the recovery pass armed

vars == <<now, process, reminders, seq, jobs, inflight, outbox, cancelled,
          delivered, recovered>>

\* the process is up: handlers and jobs run
running == process = "up"

\* ------------------------------------------------ text and time formats
Digit == <<"0", "1", "2", "3", "4", "5", "6", "7", "8", "9">>

\* %M and %H of strftime: two decimal digits
Pad2(n) == Digit[(n \div 10) + 1] \o Digit[(n % 10) + 1]

\* a minute count printed in DATETIME_FMT, "%Y-%m-%d %H:%M"
DATETIME_FMT(t) == "2026-01-01 " \o Pad2(t \div 60) \o ":" \o Pad2(t % 60)

\* parse_remind_time's "return None"; not a minute count
None == -1
\* fromisoformat raising ValueError; not a minute count
ValueError == -2

\* the minute counts the formats below can print
Clock == Times

\* a parser that falls back to the first minute when strptime fails
parse_remind_time_lenient(raw) ==
    IF \E t \in Clock : DATETIME_FMT(t) = raw
    THEN CHOOSE t \in Clock : DATETIME_FMT(t) = raw
    ELSE 0

\* parse_remind_time: strptime(raw, DATETIME_FMT), None when it does not parse
parse_remind_time(raw) ==
    IF \E t \in Clock : DATETIME_FMT(t) = raw
    THEN CHOOSE t \in Clock : DATETIME_FMT(t) = raw
    ELSE None

\* datetime.isoformat() of a UTC datetime with zero seconds
isoformat(t) ==
    "2026-01-01T" \o Pad2(t \div 60) \o ":" \o Pad2(t % 60) \o ":00+00:00"

\* datetime.fromisoformat: raises ValueError on a string that is no timestamp
fromisoformat(s) ==
    IF \E t \in Clock : isoformat(t) = s
    THEN CHOOSE t \in Clock : isoformat(t) = s
    ELSE ValueError

\* " ".join(words)
RECURSIVE Join(_)
Join(words) ==
    IF words = <<>> THEN ""
    ELSE IF Len(words) = 1 THEN words[1]
    ELSE words[1] \o " " \o Join(Tail(words))

\* the text reminder_job sends
Message(text) == "REMINDER!\n\n" \o text

\* f"reminder_{reminder_id}"
JobName(id) == "reminder_" \o ToString(id)

Max(a, b) == IF a >= b THEN a ELSE b

\* ------------------------------------------------------------ the store
NoRows == [i \in {} |-> 0]

\* INSERT INTO reminders (user_id, remind_at, text, created_at)
Insert(rows, id, user, remind_at, text) ==
    [i \in DOMAIN rows \cup {id} |->
        IF i = id
        THEN [user_id |-> user, remind_at |-> remind_at, text |-> text]
        ELSE rows[i]]

\* a DELETE that removes nothing
DeleteById_none(rows, id) == rows

\* DELETE FROM reminders WHERE id = ?
DeleteById(rows, id) ==
    [i \in DOMAIN rows \ {id} |-> rows[i]]

\* a cancel whose DELETE is not scoped to the caller
DeleteByOwnerAndId_unscoped(rows, user, id) ==
    [i \in DOMAIN rows \ {id} |-> rows[i]]

\* the rows DELETE FROM reminders WHERE user_id = ? AND id = ? removes
OwnedRows(rows, user, id) ==
    {i \in DOMAIN rows : i = id /\ rows[i].user_id = user}

DeleteByOwnerAndId(rows, user, id) ==
    [i \in DOMAIN rows \ OwnedRows(rows, user, id) |-> rows[i]]

\* -------------------------------------------------------- the job queue
\* an arming that takes the due time itself for the delay
schedule_reminder_relative(queue, reminder_id, user_id, text, remind_at, t) ==
    queue (+) SetToBag({[name |-> JobName(reminder_id),
                         when |-> t + remind_at,
                         data |-> [reminder_id |-> reminder_id,
                                   user_id |-> user_id,
                                   text |-> text]]})

\* an arming that runs the job at once, whatever the due time
schedule_reminder_at_once(queue, reminder_id, user_id, text, remind_at, t) ==
    queue (+) SetToBag({[name |-> JobName(reminder_id),
                         when |-> t,
                         data |-> [reminder_id |-> reminder_id,
                                   user_id |-> user_id,
                                   text |-> text]]})

\* an arming that skips a due time that is not in the future
schedule_reminder_skip_past(queue, reminder_id, user_id, text, remind_at, t) ==
    IF remind_at <= t THEN queue
    ELSE queue (+) SetToBag({[name |-> JobName(reminder_id),
                              when |-> remind_at,
                              data |-> [reminder_id |-> reminder_id,
                                        user_id |-> user_id,
                                        text |-> text]]})

\* schedule_reminder: run_once(reminder_job, delay, name, data)
schedule_reminder(queue, reminder_id, user_id, text, remind_at, t) ==
    LET delay == Max(0, remind_at - t)
    IN queue (+) SetToBag({[name |-> JobName(reminder_id),
                            when |-> t + delay,
                            data |-> [reminder_id |-> reminder_id,
                                      user_id |-> user_id,
                                      text |-> text]]})

\* job_queue.get_jobs_by_name(name)
get_jobs_by_name(queue, name) ==
    {j \in BagToSet(queue) : j.name = name}

\* a cancel that leaves the jobs in the queue
RemoveJobs_none(queue, name) == queue

\* a cancel that removes every job of the queue
RemoveJobs_all(queue, name) == EmptyBag

\* job.schedule_removal() for every job of that name
RemoveJobs(queue, name) ==
    LET keep == BagToSet(queue) \ get_jobs_by_name(queue, name)
    IN [j \in keep |-> queue[j]]

\* the number of jobs armed under the name of reminder id
Armed(id) ==
    LET named == get_jobs_by_name(jobs, JobName(id))
    IN IF named = {} THEN 0
       ELSE BagCardinality([j \in named |-> jobs[j]])

\* ----------------------------------------------------------- the queries
\* ORDER BY remind_at over the rows ids: remind_at is TEXT, and timestamps
\* printed by isoformat compare as text the way the minutes they print
\* compare; rows of equal remind_at come out in rowid order
RECURSIVE OrderByRemindAt(_, _)
OrderByRemindAt(rows, ids) ==
    IF ids = {} THEN <<>>
    ELSE LET key(i) == fromisoformat(rows[i].remind_at)
             first == CHOOSE i \in ids : \A k \in ids :
                          key(i) < key(k) \/ (key(i) = key(k) /\ i <= k)
         IN <<[id |-> first, remind_at |-> rows[first].remind_at,
               text |-> rows[first].text]>>
            \o OrderByRemindAt(rows, ids \ {first})

\* a SELECT without its ORDER BY: the rows in rowid order
RECURSIVE OrderByRowid(_, _)
OrderByRowid(rows, ids) ==
    IF ids = {} THEN <<>>
    ELSE LET first == CHOOSE i \in ids : \A k \in ids : i <= k
         IN <<[id |-> first, remind_at |-> rows[first].remind_at,
               text |-> rows[first].text]>>
            \o OrderByRowid(rows, ids \ {first})

SelectByOwner_unordered(rows, user) ==
    OrderByRowid(rows, {i \in DOMAIN rows : rows[i].user_id = user})

\* SELECT id, remind_at, text FROM reminders WHERE user_id = ? ORDER BY remind_at
SelectByOwner(rows, user) ==
    OrderByRemindAt(rows, {i \in DOMAIN rows : rows[i].user_id = user})

\* ------------------------------------------------------ command inputs
\* context.args of /remind_add: the words after the command (words hold no
\* white space, so the .strip() of the joined text changes nothing)
AddArgs ==
    {<<"2026-01-01">>, <<"2026-01-01", "00:01">>,
     <<"tomorrow", "00:01", "standup">>}
    \cup {<<"2026-01-01", Pad2(t \div 60) \o ":" \o Pad2(t % 60)>>
             \o (IF t % 2 = 0 THEN <<"standup">> ELSE <<"team", "lunch">>) :
             t \in Times}

\* context.args of /remind_cancel
CancelArgs == {<<>>, <<"x">>} \cup {<<ToString(i)>> : i \in Ids}

\* str.isdigit() on the targets above
isdigit(s) == \E i \in Ids : ToString(i) = s

\* int(target)
int(s) == CHOOSE i \in Ids : ToString(i) = s

\* context.args[a:b]
Slice(args, a, b) ==
    IF a > Len(args) THEN <<>>
    ELSE SubSeq(args, a, IF b <= Len(args) THEN b ELSE Len(args))

\* ------------------------------------------------------------- handlers
\* what remind_add answers with reply_text
remind_add_reply(args) ==
    IF Len(args) < 2 THEN "Usage: /remind_add <YYYY-MM-DD HH:MM> <text>"
    ELSE IF Join(Slice(args, 3, Len(args))) = ""
    THEN "Please provide reminder text."
    ELSE IF parse_remind_time(Join(Slice(args, 1, 2))) = None
    THEN "Invalid datetime format."
    ELSE "Reminder set!"

\* what remind_cancel answers with reply_text, given the table it ran on
remind_cancel_reply(rows, user, args) ==
    LET target == Join(args)
    IN IF target = "" \/ ~isdigit(target) THEN "Usage: /remind_cancel <id>"
       ELSE IF Cardinality(OwnedRows(rows, user, int(target))) > 0
       THEN "Reminder canceled!"
       ELSE "Reminder not found."

\* the lines remind_list appends for the rows it selected
RECURSIVE ListLines(_)
ListLines(rows) ==
    IF rows = <<>> THEN ""
    ELSE "\n" \o ToString(rows[1].id) \o ". " \o rows[1].remind_at
              \o " - " \o rows[1].text \o ListLines(Tail(rows))

\* what remind_list answers with reply_text, given the table it ran on
remind_list_reply(rows, user) ==
    IF SelectByOwner(rows, user) = <<>> THEN "No reminders scheduled."
    ELSE "Your Reminders (UTC):\n" \o ListLines(SelectByOwner(rows, user))

\* remind_list: select the caller's rows and reply; nothing is written
remind_list(user) ==
    /\ running
    /\ UNCHANGED vars

\* remind_add: validate, insert the row, arm its job
remind_add(user, args) ==
    /\ running
    /\ LET when_raw == Join(Slice(args, 1, 2))
           text == Join(Slice(args, 3, Len(args)))
           remind_at == parse_remind_time(when_raw)
           reminder_id == seq + 1
       IN IF Len(args) < 2 \/ text = "" \/ remind_at = None
          THEN UNCHANGED <<reminders, seq, jobs>>
          ELSE /\ seq < MaxId
               /\ reminders' = Insert(reminders, reminder_id, user,
                                      isoformat(remind_at), text)
               /\ seq' = reminder_id
               /\ jobs' = schedule_reminder(jobs, reminder_id, user, text,
                                            remind_at, now)
    /\ UNCHANGED <<now, process, inflight, outbox, cancelled, delivered, recovered>>

\* remind_cancel: delete the caller's row, remove the jobs of that name
remind_cancel(user, args) ==
    /\ running
    /\ LET target == Join(args)
       IN IF target = "" \/ ~isdigit(target)
          THEN UNCHANGED <<reminders, jobs, cancelled, recovered>>
          ELSE LET reminder_id == int(target)
                   rowcount == Cardinality(OwnedRows(reminders, user, reminder_id))
               IN /\ reminders' = DeleteByOwnerAndId(reminders, user, reminder_id)
                  /\ jobs' = RemoveJobs(jobs, JobName(reminder_id))
                  /\ cancelled' = IF rowcount > 0
                                  THEN cancelled \cup {reminder_id}
                                  ELSE cancelled
                  /\ recovered' = recovered \ {reminder_id}
    /\ UNCHANGED <<now, process, seq, inflight, outbox, delivered>>

\* a job of the queue comes due: reminder_job starts and calls send_message
reminder_job(job) ==
    /\ running
    /\ BagIn(job, jobs)
    /\ job.when <= now
    /\ jobs' = jobs (-) SetToBag({job})
    /\ outbox' = [outbox EXCEPT ![job.data.reminder_id] =
                     Append(@, [chat_id |-> job.data.user_id,
                                text |-> Message(job.data.text)])]
    /\ inflight' = inflight \cup {job.data}
    /\ recovered' = recovered \ {job.data.reminder_id}
    /\ UNCHANGED <<now, process, reminders, seq, cancelled, delivered>>

\* send_message returns: reminder_job deletes the row
send_ok(data) ==
    /\ running
    /\ data \in inflight
    /\ inflight' = inflight \ {data}
    /\ reminders' = DeleteById(reminders, data.reminder_id)
    /\ delivered' = delivered \cup {data.reminder_id}
    /\ UNCHANGED <<now, process, seq, jobs, outbox, cancelled, recovered>>

\* a failed send that takes the process down with its job queue
send_raises_fatal(data) ==
    /\ running
    /\ data \in inflight
    /\ process' = "exited"
    /\ jobs' = EmptyBag
    /\ inflight' = {}
    /\ recovered' = {}
    /\ UNCHANGED <<now, reminders, seq, outbox, cancelled, delivered>>

\* send_message raises: reminder_job ends there, the delete is not reached
send_raises(data) ==
    /\ running
    /\ data \in inflight
    /\ inflight' = inflight \ {data}
    /\ UNCHANGED <<now, process, reminders, seq, jobs, outbox, cancelled,
                   delivered, recovered>>

\* ------------------------------------------------------------- recovery
\* a recovery that skips no row
IsPast_never(remind_at, t) == FALSE

\* a recovery that also skips the rows due at this very minute
IsPast_or_now(remind_at, t) == remind_at <= t

\* "if remind_at < now_utc(): continue"
IsPast(remind_at, t) == remind_at < t

\* the loop of schedule_pending_reminders over the rows still to visit, in
\* rowid order; raised when fromisoformat raised and ended the loop
RECURSIVE RecoveryLoop(_, _, _, _)
RecoveryLoop(queue, rows, todo, t) ==
    IF todo = {} THEN [queue |-> queue, raised |-> FALSE]
    ELSE LET id == CHOOSE i \in todo : \A k \in todo : i <= k
             row == rows[id]
             remind_at == fromisoformat(row.remind_at)
         IN IF remind_at = ValueError
            THEN [queue |-> queue, raised |-> TRUE]
            ELSE IF IsPast(remind_at, t)
            THEN RecoveryLoop(queue, rows, todo \ {id}, t)
            ELSE RecoveryLoop(schedule_reminder(queue, id, row.user_id,
                                                row.text, remind_at, t),
                              rows, todo \ {id}, t)

\* a recovery that runs its pass twice over the same job queue
schedule_pending_reminders_twice(rows, t) ==
    RecoveryLoop(RecoveryLoop(EmptyBag, rows, DOMAIN rows, t).queue,
                 rows, DOMAIN rows, t)

\* schedule_pending_reminders: SELECT every row, arm those not yet past
schedule_pending_reminders(rows, t) ==
    RecoveryLoop(EmptyBag, rows, DOMAIN rows, t)

\* main(): a process starts, runs the recovery pass and goes on to
\* run_polling; an exception of the recovery pass leaves main and the
\* process exits with its job queue
main ==
    /\ ~running
    /\ LET pass == schedule_pending_reminders(reminders, now)
       IN IF pass.raised
          THEN /\ process' = "exited"
               /\ jobs' = EmptyBag
               /\ recovered' = {}
          ELSE /\ process' = "up"
               /\ jobs' = pass.queue
               /\ recovered' = {j.data.reminder_id : j \in BagToSet(pass.queue)}
    /\ UNCHANGED <<now, reminders, seq, inflight, outbox, cancelled, delivered>>

\* ---------------------------------------------------------- environment
\* the process stops (killed, crashed, host down): the job queue and the
\* coroutines in flight are gone, the database file stays.  now_utc() has
\* microsecond resolution and a new interpreter takes far longer than that
\* to reach main(), so every clock reading of the next process is later
\* than every reading of this one.
stop ==
    /\ running
    /\ now < MaxTime
    /\ process' = "down"
    /\ jobs' = EmptyBag
    /\ inflight' = {}
    /\ now' = now + 1
    /\ recovered' = {}
    /\ UNCHANGED <<reminders, seq, outbox, cancelled, delivered>>

\* time passes
tick ==
    /\ now < MaxTime
    /\ now' = now + 1
    /\ UNCHANGED <<process, reminders, seq, jobs, inflight, outbox, cancelled,
                   delivered, recovered>>

\* ------------------------------------------------------- specifications
\* init_db on a new data directory: an empty reminders table
Init ==
    /\ now = 0
    /\ process = "down"
    /\ reminders = NoRows
    /\ seq = 0
    /\ jobs = EmptyBag
    /\ inflight = {}
    /\ outbox = [i \in Ids |-> <<>>]
    /\ cancelled = {}
    /\ delivered = {}
    /\ recovered = {}

AddStep == \E user \in Users, args \in AddArgs : remind_add(user, args)
CancelStep == \E user \in Users, args \in CancelArgs : remind_cancel(user, args)
ListStep == \E user \in Users : remind_list(user)
FireStep == \E job \in BagToSet(jobs) : reminder_job(job)
SendOkStep == \E data \in inflight : send_ok(data)
SendRaisesStep == \E data \in inflight : send_raises(data)

Next ==
    \/ main
    \/ AddStep
    \/ CancelStep
    \/ ListStep
    \/ FireStep
    \/ SendOkStep
    \/ SendRaisesStep
    \/ stop
    \/ tick

Spec == Init /\ [][Next]_vars

\* a process started on a database file that already holds rows, written by
\* an earlier run or by another program: remind_at is any TEXT (the column
\* is declared "remind_at TEXT NOT NULL")
ExistingTexts == {isoformat(t) : t \in Times} \cup {"soon"}

ExistingTables ==
    UNION {[d -> [user_id : {1}, remind_at : ExistingTexts, text : {"standup"}]] :
             d \in SUBSET Ids}

InitExisting ==
    /\ now = 0
    /\ process = "down"
    /\ reminders \in ExistingTables
    /\ seq \in 0..MaxId
    /\ \A id \in DOMAIN reminders : id <= seq
    /\ jobs = EmptyBag
    /\ inflight = {}
    /\ outbox = [i \in Ids |-> <<>>]
    /\ cancelled = {}
    /\ delivered = {}
    /\ recovered = {}

SpecExisting == InitExisting /\ [][Next]_vars

\* the restart scenario: reminders are created, the process stops and
\* starts again, nobody cancels and the transport delivers.  Time passes,
\* a stopped process is started again, the job queue runs every job that
\* is due and send_message returns.
NextRestart ==
    \/ main
    \/ AddStep
    \/ FireStep
    \/ SendOkStep
    \/ stop
    \/ tick

SpecRestart ==
    /\ Init
    /\ [][NextRestart]_vars
    /\ WF_vars(tick)
    /\ WF_vars(main)
    /\ WF_vars(FireStep)
    /\ WF_vars(SendOkStep)

\* the delivery scenario: the process starts once and keeps running, nobody
\* cancels and send_message returns.  Time passes, the job queue runs every
\* job that is due and every send completes.
NextDeliver ==
    \/ main
    \/ AddStep
    \/ FireStep
    \/ SendOkStep
    \/ tick

SpecDeliver ==
    /\ Init
    /\ [][NextDeliver]_vars
    /\ WF_vars(tick)
    /\ WF_vars(main)
    /\ WF_vars(FireStep)
    /\ WF_vars(SendOkStep)

\* the failing-transport scenario: the process starts once and keeps
\* running, nobody cancels, and send_message returns or raises.  Time
\* passes, the job queue runs every job that is due and every send ends.
NextFailing ==
    \/ main
    \/ AddStep
    \/ FireStep
    \/ SendOkStep
    \/ SendRaisesStep
    \/ tick

SpecFailing ==
    /\ Init
    /\ [][NextFailing]_vars
    /\ WF_vars(tick)
    /\ WF_vars(main)
    /\ WF_vars(FireStep)
    /\ WF_vars(SendOkStep \/ SendRaisesStep)

\* schedule_reminder called once more for a stored reminder whose job is
\* armed and has not run, as a second arming pass would call it
schedule_reminder_again(id) ==
    /\ running
    /\ id \in DOMAIN reminders
    /\ Armed(id) = 1
    /\ outbox[id] = <<>>
    /\ jobs' = schedule_reminder(jobs, id, reminders[id].user_id,
                                 reminders[id].text,
                                 fromisoformat(reminders[id].remind_at), now)
    /\ UNCHANGED <<now, process, reminders, seq, inflight, outbox, cancelled,
                   delivered, recovered>>

RearmStep == \E id \in Ids : schedule_reminder_again(id)

\* the program with callers that arm a stored reminder a second time
NextRearm ==
    \/ Next
    \/ RearmStep

SpecRearm == Init /\ [][NextRearm]_vars

\* ---------------------------------------------------------------- claims
\* the due time a stored row carries
DueOf(id) == fromisoformat(reminders[id].remind_at)

\* C1: in every run of remind_add, remind_cancel, timer expiry, process stop
\* and restart with recovery, send_message is called at most once for any
\* reminder id, also when the process stopped between the send and the
\* delete of reminder_job and recovery ran afterwards.
C1_AtMostOneSend ==
    \A id \in Ids : Len(outbox[id]) <= 1

\* a reminder due at minute 0 was sent and its row was left in the table;
\* the process stopped and the recovery of the next one (which armed
\* another reminder, so ran at minute 1 or later) found that row and armed
\* nothing for it
C1_Witness ==
    \E a \in DOMAIN reminders, b \in recovered :
        /\ running
        /\ DueOf(a) = 0
        /\ Len(outbox[a]) = 1
        /\ a \notin delivered
        /\ Armed(a) = 0
        /\ Armed(b) = 1

\* C2: when reminder_job has run to its end, with send_message returning or
\* raising, the row of that reminder is no longer in the table.
C2_DispatchDeletesRow ==
    [][\A data \in inflight :
           (data \notin inflight' /\ running')
               => data.reminder_id \notin DOMAIN reminders']_vars

\* C3: when the owner cancels a reminder whose row exists and for which
\* nothing was sent yet, the row and every job of that id are gone right
\* after the cancel, and nothing is ever sent for that id afterwards.
C3_CancelBeforeFire ==
    /\ [][\A id \in cancelled' \ cancelled :
             outbox[id] = <<>>
                 => (id \notin DOMAIN reminders' /\ Armed(id)' = 0)]_vars
    /\ [][\A id \in Ids :
             (id \in cancelled /\ outbox[id] = <<>>) => outbox'[id] = <<>>]_vars

\* a reminder cancelled by its owner before anything was sent, with the
\* clock at the end of the explored time
C3_Witness ==
    \E id \in cancelled :
        /\ outbox[id] = <<>>
        /\ id \notin DOMAIN reminders
        /\ Armed(id) = 0
        /\ running
        /\ now = MaxTime

\* C4: a remind_cancel by a user who does not own reminder id leaves the
\* row in the table and the armed job in the queue.
C4_CancelScopedToOwner ==
    [][\A id \in DOMAIN reminders, user \in Users :
           (user # reminders[id].user_id /\ remind_cancel(user, <<ToString(id)>>))
               => /\ id \in DOMAIN reminders'
                  /\ reminders'[id] = reminders[id]
                  /\ Armed(id)' = Armed(id)]_vars

\* C5: a remind_cancel that answers "Reminder not found." leaves the table
\* and the job queue as they were.
C5_NotFoundChangesNothing ==
    [][\A user \in Users, args \in CancelArgs :
           ( /\ remind_cancel(user, args)
             /\ remind_cancel_reply(reminders, user, args) = "Reminder not found." )
               => UNCHANGED <<reminders, jobs>>]_vars

\* the job schedule_reminder arms for the stored row id at its due time
JobOf(id) ==
    [name |-> JobName(id),
     when |-> DueOf(id),
     data |-> [reminder_id |-> id,
               user_id |-> reminders[id].user_id,
               text |-> reminders[id].text]]

\* C6: when a process has started and run its recovery pass, the job queue
\* holds exactly one job for each stored row whose due time is not before
\* the current time and none for the rows whose due time is past; the
\* table is unchanged and nothing was sent by the recovery.
C6_RecoveryArmsFuture ==
    [][(~running /\ running')
          => /\ jobs' = SetToBag({JobOf(id) :
                                   id \in {i \in DOMAIN reminders : DueOf(i) >= now}})
             /\ reminders' = reminders
             /\ outbox' = outbox]_vars

\* after a recovery: an older row whose due time had passed has no job and
\* was not sent, a younger row due later was armed by the recovery
C6_Witness ==
    \E a \in DOMAIN reminders, b \in DOMAIN reminders :
        /\ running
        /\ a < b
        /\ DueOf(a) < now
        /\ Armed(a) = 0
        /\ outbox[a] = <<>>
        /\ b \in recovered
        /\ Armed(b) = 1
        /\ DueOf(b) > now

\* C7: a process that starts on a table with a row whose timestamp does
\* not parse comes up all the same, with a job armed for every other row
\* whose due time has not passed.
C7_RecoverySkipsBadRow ==
    [][(process = "down" /\ process' # "down")
          => /\ process' = "up"
             /\ \A id \in DOMAIN reminders :
                    (fromisoformat(reminders[id].remind_at) # ValueError
                       /\ DueOf(id) >= now)
                        => Armed(id)' = 1]_vars

\* C8: a reminder whose row a restarted process finds before its due time
\* is armed for the due time stored in the row, is sent no earlier than
\* that, at most once, and is sent unless the process stops again.
C8_RestartKeepsDueTime ==
    /\ [][\A id \in recovered' \ recovered :
             BagIn(JobOf(id), jobs') /\ Armed(id)' = 1]_vars
    /\ [][\A id \in Ids :
             Len(outbox'[id]) > Len(outbox[id])
                 => (id \in DOMAIN reminders /\ now >= DueOf(id))]_vars
    /\ [](\A id \in Ids : Len(outbox[id]) <= 1)
    /\ \A id \in Ids :
          (id \in recovered) ~> (Len(outbox[id]) = 1 \/ ~running)

\* reminder b was sent while a younger reminder a, armed by the recovery
\* and due earlier than b, still waits: the recovery ran no later than a's
\* due time, so before b's, with b already in the table, and b was sent
\* after it
C8_Witness ==
    \E a \in recovered \cap DOMAIN reminders, b \in DOMAIN reminders :
        /\ b < a
        /\ DueOf(a) < DueOf(b)
        /\ now >= DueOf(b)
        /\ Len(outbox[b]) = 1
        /\ outbox[b][1].chat_id = reminders[b].user_id

\* C9: in every reachable state the job queue holds at most one job named
\* reminder_<id> for any reminder id.
C9_OneTimerPerId ==
    \A id \in Ids : Armed(id) <= 1

\* a job armed by the recovery pass and a job armed by a later remind_add
\* wait in the queue of the same process
C9_Witness ==
    \E a \in recovered, b \in Ids \ recovered :
        /\ running
        /\ Armed(a) = 1
        /\ Armed(b) = 1

TextGiven(t) == IF t % 2 = 0 THEN "standup" ELSE "team lunch"

\* C11: while the process keeps running, send_message returns, the job
\* queue runs its due jobs and nobody cancels, every reminder remind_add
\* created is in the end delivered, exactly once, to its owner and with the
\* text of the request, and from then on its row is gone; two reminders due
\* at the same minute are both delivered, in either order.
C11_DeliveredOnce ==
    /\ \A id \in Ids :
          (id \in DOMAIN reminders) ~> (id \in delivered /\ id \notin DOMAIN reminders)
    /\ [](\A id \in Ids : Len(outbox[id]) <= 1)
    /\ [](\A id \in delivered : id \notin DOMAIN reminders /\ Len(outbox[id]) = 1)
    /\ [][\A id \in Ids : Len(outbox'[id]) > Len(outbox[id]) =>
            /\ id \in DOMAIN reminders
            /\ outbox'[id] = <<[chat_id |-> reminders[id].user_id,
                                text |-> Message(reminders[id].text)]>>]_vars
    /\ [][\A id \in DOMAIN reminders' \ DOMAIN reminders :
            reminders'[id].text = TextGiven(fromisoformat(reminders'[id].remind_at))]_vars
    /\ [][\A id \in DOMAIN reminders \cap DOMAIN reminders' :
            reminders'[id] = reminders[id]]_vars

\* two reminders of different owners due at the same minute: the one created
\* later has been sent, each to its own owner's chat, while the job of the
\* older one, due as well, has not run yet
C11_Witness ==
    \E a, b \in DOMAIN reminders :
        /\ a < b
        /\ reminders[a].user_id # reminders[b].user_id
        /\ DueOf(a) = DueOf(b)
        /\ DueOf(a) = now
        /\ Armed(a) = 1
        /\ outbox[a] = <<>>
        /\ outbox[b] = <<[chat_id |-> reminders[b].user_id,
                          text |-> Message(TextGiven(DueOf(b)))]>>

\* the requests of AddArgs that fail validation: fewer than two words, no
\* text after the two words of the time, or two words that are no time
\* printed in DATETIME_FMT
InvalidAddArgs ==
    {args \in AddArgs :
        \/ Len(args) < 2
        \/ Len(args) = 2
        \/ \A t \in Times : args[1] \o " " \o args[2] # DATETIME_FMT(t)}

\* C12: a remind_add that fails validation (fewer than two arguments, empty
\* text, a due time that does not parse) has no effect: in every state no
\* such request can change the table, the id counter, the job queue or
\* anything else.
C12_RejectedAddChangesNothing ==
    \A user \in Users, args \in InvalidAddArgs :
        ~ENABLED <<remind_add(user, args)>>_vars

\* the process is up with a row and its armed job, and a well-formed request
\* would insert another row here while the three rejected ones are answered
\* with their three different rejections
C12_Witness ==
    /\ running
    /\ \E id \in DOMAIN reminders : Armed(id) = 1
    /\ Cardinality(InvalidAddArgs) = 3
    /\ Cardinality({remind_add_reply(args) : args \in InvalidAddArgs}) = 3
    /\ \E args \in AddArgs \ InvalidAddArgs : ENABLED <<remind_add(1, args)>>_vars

\* C13: whenever reminder_job calls send_message for a reminder, the row of
\* that reminder is in the table and the clock has reached the due time the
\* row stores; this holds in every run, those with a stop, a restart and a
\* recovery pass included.
C13_NeverBeforeDue ==
    [][\A id \in Ids : Len(outbox'[id]) > Len(outbox[id]) =>
          /\ id \in DOMAIN reminders
          /\ now >= DueOf(id)]_vars

\* a reminder is being sent at the very minute it is due, by the job of a
\* recovery pass: the job of a reminder created after it is still armed by
\* that pass, which therefore found both rows and armed both
C13_Witness ==
    \E data \in inflight, b \in recovered :
        /\ data.reminder_id < b
        /\ data.reminder_id \in DOMAIN reminders
        /\ DueOf(data.reminder_id) = now
        /\ now > 0
        /\ Len(outbox[data.reminder_id]) = 1
        /\ Armed(b) = 1

\* the send of reminder id was called and has ended without returning
Failed(id) ==
    /\ outbox[id] # <<>>
    /\ id \notin delivered
    /\ \A data \in inflight : data.reminder_id # id

\* C14: a send_message that raises in reminder_job does not stop the
\* scheduler: the process stays up, the step of the failure leaves the job
\* queue and the table as they are, every other job armed after a failure
\* still runs and sends, and remind_add and remind_cancel are still served.
C14_FailureIsolated ==
    /\ [][running => running']_vars
    /\ [][\A data \in inflight \ inflight' :
            data.reminder_id \notin delivered' =>
                jobs' = jobs /\ reminders' = reminders]_vars
    /\ \A id \in Ids :
          ((\E f \in Ids \ {id} : Failed(f)) /\ Armed(id) = 1)
              ~> (Len(outbox[id]) = 1)
    /\ [](\A f \in Ids : Failed(f) =>
            /\ seq < MaxId =>
                 \E args \in AddArgs : ENABLED <<remind_add(1, args)>>_vars
            /\ \A id \in DOMAIN reminders :
                 ENABLED <<remind_cancel(reminders[id].user_id,
                                         <<ToString(id)>>)>>_vars)

\* the send of the reminder due first has failed and left its row behind;
\* the reminder created after it has been delivered and its row is gone
C14_Witness ==
    \E a \in DOMAIN reminders, b \in delivered :
        /\ running
        /\ a < b
        /\ Failed(a)
        /\ DueOf(a) = 0
        /\ now = MaxTime
        /\ Len(outbox[b]) = 1
        /\ b \notin DOMAIN reminders

\* the ids of the rows user owns
OwnedIds(rows, user) == {i \in DOMAIN rows : rows[i].user_id = user}

\* C15: what remind_list selects for a user is exactly the rows of that
\* user now in the table, each once and with its stored due time and text,
\* in ascending order of due time; and the row a remind_add has just
\* inserted is selected by the same caller's next remind_list and deleted by
\* the same caller's next remind_cancel.
C15_ListIsOwnersRowsInDueOrder ==
    /\ [](\A user \in Users : \A rows \in {SelectByOwner(reminders, user)} :
            /\ Len(rows) = Cardinality(OwnedIds(reminders, user))
            /\ {rows[k].id : k \in 1..Len(rows)} = OwnedIds(reminders, user)
            /\ \A k \in 1..Len(rows) :
                  /\ rows[k].remind_at = reminders[rows[k].id].remind_at
                  /\ rows[k].text = reminders[rows[k].id].text
            /\ \A k \in 1..(Len(rows) - 1) :
                  DueOf(rows[k].id) <= DueOf(rows[k + 1].id))
    /\ [][\A id \in DOMAIN reminders' \ DOMAIN reminders :
            \A rows \in {SelectByOwner(reminders', reminders'[id].user_id)} :
               /\ \E k \in 1..Len(rows) : rows[k].id = id
               /\ remind_cancel_reply(reminders', reminders'[id].user_id,
                                      <<ToString(id)>>) = "Reminder canceled!"
               /\ id \notin DOMAIN DeleteByOwnerAndId(reminders',
                                         reminders'[id].user_id, id)]_vars

\* a user owns two reminders and the one created later is due earlier, so
\* the list puts it first; the process is up and serves remind_list
C15_Witness ==
    \E user \in Users, a, b \in DOMAIN reminders :
        /\ ENABLED remind_list(user)
        /\ remind_list_reply(reminders, user) # "No reminders scheduled."
        /\ a < b
        /\ DueOf(b) < DueOf(a)
        /\ SelectByOwner(reminders, user)
              = <<[id |-> b, remind_at |-> reminders[b].remind_at,
                   text |-> reminders[b].text],
                  [id |-> a, remind_at |-> reminders[a].remind_at,
                   text |-> reminders[a].text]>>

\* C16: arming is idempotent per id: a schedule_reminder call for an id
\* whose job is armed replaces that job, so after the second call one job
\* of that name is in the queue, and the reminder is sent once.
C16_ArmingIdempotent ==
    /\ [][\A id \in Ids : Armed(id) = 1 => Armed(id)' <= 1]_vars
    /\ [](\A id \in Ids : Len(outbox[id]) <= 1)

\* the well-formed requests of AddArgs for minute t
AddArgsFor(t) ==
    {args \in AddArgs \ InvalidAddArgs :
        args[1] \o " " \o args[2] = DATETIME_FMT(t)}

\* C17: a remind_add whose due time is in the past or equal to the clock is
\* not skipped: its row is inserted and one job is armed for it with delay
\* max(0, due - now) = 0, that is to run at the minute of the request; the
\* send is not made inside remind_add but by the job, at a later step.
C17_PastDueIsArmedAtOnce ==
    /\ [][\A id \in DOMAIN reminders' \ DOMAIN reminders :
            LET row == reminders'[id]
                due == fromisoformat(row.remind_at)
            IN due <= now =>
                  /\ jobs' = jobs (+) SetToBag({[name |-> JobName(id),
                                                 when |-> now,
                                                 data |-> [reminder_id |-> id,
                                                           user_id |-> row.user_id,
                                                           text |-> row.text]]})
                  /\ Armed(id)' = 1
                  /\ outbox' = outbox
                  /\ inflight' = inflight]_vars
    /\ [](running /\ seq < MaxId =>
            \A t \in 0..now : \A args \in AddArgsFor(t) :
                \E id \in Ids :
                    /\ id = seq + 1
                    /\ ENABLED (remind_add(1, args) /\ id \in DOMAIN reminders'
                                  /\ Armed(id)' = 1))

\* a row whose due time has passed and whose job, not armed by recovery,
\* was armed to run at a later minute than the due one: the minute of its
\* remind_add; the job is due and has not run yet
C17_Witness ==
    \E id \in DOMAIN reminders \ recovered, job \in BagToSet(jobs) :
        /\ running
        /\ job.name = JobName(id)
        /\ DueOf(id) < job.when
        /\ job.when <= now
        /\ Armed(id) = 1
        /\ outbox[id] = <<>>

\* reminder_job for id is suspended in send_message
InFlight(id) == \E data \in inflight : data.reminder_id = id

\* C18: the owner's remind_cancel may run while the dispatch of the same
\* reminder is in flight.  Neither fails: the cancel deletes the row and
\* finds no job of that name to remove, so the queue stays as it is and the
\* dispatch stays in flight; when the send then returns, the dispatcher's
\* DELETE finds no row and changes nothing; the process stays up through
\* both, and from the cancel on neither a row nor a job exists for the id.
C18_CancelDuringDispatch ==
    /\ [][\A id \in cancelled' \ cancelled : InFlight(id) =>
            /\ running'
            /\ id \notin DOMAIN reminders'
            /\ jobs' = jobs
            /\ inflight' = inflight]_vars
    /\ [][\A data \in inflight \ inflight' :
            (data.reminder_id \in cancelled /\ now' = now) =>
                /\ running'
                /\ reminders' = reminders
                /\ jobs' = jobs]_vars
    /\ [](\A id \in cancelled : outbox[id] # <<>> =>
            id \notin DOMAIN reminders /\ Armed(id) = 0)

\* the owner cancelled a reminder while its send was in flight and the send
\* has returned since; another reminder's row and job are still there
C18_Witness ==
    \E id \in cancelled \cap delivered, b \in DOMAIN reminders :
        /\ running
        /\ Len(outbox[id]) = 1
        /\ ~InFlight(id)
        /\ Armed(b) = 1

\* C19: in every reachable state each job of the queue belongs to a
\* reminder whose row is in the table: it carries the name of that id, and
\* the owner and the text in its data are those of the row; no job is armed
\* for an id whose row a remind_cancel or a dispatch has deleted.
C19_TimerHasItsRow ==
    /\ \A job \in BagToSet(jobs) :
          LET id == job.data.reminder_id
          IN /\ job.name = JobName(id)
             /\ id \in DOMAIN reminders
             /\ job.data.user_id = reminders[id].user_id
             /\ job.data.text = reminders[id].text
    /\ \A id \in cancelled \cup delivered :
          id \notin DOMAIN reminders /\ Armed(id) = 0

\* the owner cancelled a reminder before its job ran, and neither its row
\* nor its job is left; the job of the other user's reminder is armed and
\* carries that row's owner and text
C19_Witness ==
    \E a \in cancelled, job \in BagToSet(jobs) :
        /\ running
        /\ outbox[a] = <<>>
        /\ job.data.reminder_id # a
        /\ job.data.reminder_id \in DOMAIN reminders
        /\ job.data.user_id = 2
        /\ job.data.text = "team lunch"
        /\ reminders[job.data.reminder_id].text = "team lunch"

====
